---------------------------- MODULE Spec2Model ----------------------------
(***************************************************************************)
(* The document vector store of weaverwhale/ai-elements                    *)
(* (src/unnamed/part_003): chunked ingestion, vector search, listing,      *)
(* deletion and the persisted metadata / index files.                      *)
(*                                                                         *)
(* Conventions.                                                            *)
(*  - A text is a sequence of code units (small integers).  Document       *)
(*    contents are 0 to 2500 units long, so the state holds texts by       *)
(*    name (FileNames, Queries) and TextOf gives the text of a name; a     *)
(*    chunk's content is held as <<name, i>>, the i-th chunk of that text. *)
(*  - crypto.randomUUID() is modelled by the fresh ids 1, 2, ...           *)
(*  - The embedding model and the HNSW library are external: an embedding  *)
(*    is a point on a line, a distance is the squared difference in        *)
(*    hundredths (Dist100), searchKnn is exact with either tie order.      *)
(*  - Similarities and scores are held in hundredths: 1 - d is 100 - d100, *)
(*    0.1 * chunkCount is 10 * chunkCount.                                 *)
(*  - File writes succeed (no disk fault is modelled).                     *)
(***************************************************************************)
EXTENDS Integers, Sequences, FiniteSets, TLC

VARIABLES
  documentMetadata,     \* the in-memory store: count, userDocuments, documents, chunks, chunkToIndex
  documentVectorIndex,  \* the in-memory HNSW index: points (slot -> embedding), deleted slots
  documentEmbedder,     \* 0: null, k > 0: the pipeline made by the k-th pipeline() call
  files,                \* ids of the files present in DOCUMENTS_DIR
  metadataFile,         \* metadata.json
  indexFile,            \* document_index.bin
  pc,                   \* per caller: where its storeDocument call is suspended
  call,                 \* per caller: the locals of its storeDocument call
  nextId,               \* the next unused document id
  clock,                \* Date.now(), in milliseconds
  ret,                  \* what the last step returned to its caller
  hist,                 \* history: ids whose store returned, ids deleted, ids whose delete
                        \* failed after its ownership check, ids deleted while their store
                        \* was suspended, slots passed to addPoint
  chunkRun,             \* one application of chunkText: its arguments and result
  embedRun              \* the generateDocumentEmbedding calls in progress: where each is
                        \* suspended and its local `model`; the pipelines made and used

vars == <<documentMetadata, documentVectorIndex, documentEmbedder, files,
          metadataFile, indexFile, pc, call, nextId, clock, ret, hist, chunkRun,
          embedRun>>

storeVars == <<documentMetadata, documentVectorIndex, documentEmbedder, files,
               metadataFile, indexFile, pc, call, nextId, clock, hist>>

(***************************************************************************)
(* Bounds and inputs                                                       *)
(***************************************************************************)
MaxDocs == 2          \* document ids handed out
MaxTextLen == 5       \* chunkText alone: longest text
MaxChunkSize == 3     \* chunkText alone: largest chunkSize
MaxPipelines == 3     \* embedding calls alone: pipeline() calls made
MinAgedCount == 7     \* aged store: the lowest slot counter it starts from
MaxIterations == 8    \* chunkText's loop alone: iterations followed

Users == {"u1", "u2"}
Procs == {"p1", "p2"}
Limits == {1, 2}

DefaultChunkSize == 1000
DefaultOverlap == 200
IndexSavePeriod == 10

Min(a, b) == IF a < b THEN a ELSE b
Max(a, b) == IF a > b THEN a ELSE b

\* The files a caller can upload, by name, and what parseFile extracts from each.
FileNames == {"empty", "short", "long"}
Queries == {"short", "mid"}

TextOf(name) ==
  CASE name = "empty" -> << >>
    [] name = "short" -> <<0, 5, 5>>
    [] name = "long"  -> [i \in 1..2500 |-> IF i <= 1600 THEN 1 ELSE 2]
    [] name = "mid"   -> [i \in 1..10 |-> 1]

\* Array.prototype.slice / String.prototype.slice (start, end), 0-based, end exclusive.
slice(s, start, end) ==
  LET n    == Len(s)
      from == IF start < 0 THEN Max(n + start, 0) ELSE Min(start, n)
      to   == IF end < 0 THEN Max(n + end, 0) ELSE Min(end, n)
  IN  IF from >= to THEN << >> ELSE SubSeq(s, from + 1, to)

\* chunkText's loop: one iteration from `start` with the chunks pushed so far.
RECURSIVE chunkLoop(_, _, _, _, _)
chunkLoop(text, chunkSize, overlap, start, chunks) ==
  IF ~(start < Len(text)) THEN chunks
  ELSE LET end    == Min(start + chunkSize, Len(text))
           pushed == Append(chunks, slice(text, start, end))
       IN  IF end >= Len(text) THEN pushed
           ELSE chunkLoop(text, chunkSize, overlap, end - overlap, pushed)

\* Mutant: the next window starts at `end`, the overlap forgotten.
chunkTextNoOverlap(text, chunkSize, overlap) == chunkLoop(text, chunkSize, 0, 0, << >>)

chunkText(text, chunkSize, overlap) == chunkLoop(text, chunkSize, overlap, 0, << >>)

\* chunkText(content) as storeDocument calls it, once per file name.
ChunkTable == [name \in FileNames |-> chunkText(TextOf(name), DefaultChunkSize, DefaultOverlap)]

ChunkContent(ref) == ChunkTable[ref[1]][ref[2] + 1]


(***************************************************************************)
(* Embedding provider and vector index (external libraries)                *)
(***************************************************************************)
\* model(text, {pooling: 'mean', normalize: true}): a deterministic vector per text.
Embed(text) == IF Len(text) = 0 THEN 0 ELSE text[1]

\* The 'l2' space of hnswlib: the squared Euclidean distance, in hundredths.
Dist100(a, b) == 5 * (a - b) * (a - b)

\* new HierarchicalNSW('l2', VECTOR_DIM); initIndex(10000)
NewIndex == [points |-> << >>, deleted |-> {}]

addPoint(index, embedding, label) ==
  [points |-> (label :> embedding) @@ index.points, deleted |-> index.deleted \ {label}]

\* markDelete throws for a label the index does not hold or has deleted already.
markDeleteThrows(index, label) ==
  label \notin DOMAIN index.points \/ label \in index.deleted

markDelete(index, label) == [index EXCEPT !.deleted = @ \cup {label}]

LivePoints(index) == DOMAIN index.points \ index.deleted

\* The order of the index's answer: nearer first; equal distances in either label order.
TieOrders == {"asc", "desc"}

Nearer(index, q, tie, x, y) ==
  LET dx == Dist100(q, index.points[x])
      dy == Dist100(q, index.points[y])
  IN  \/ dx < dy
      \/ dx = dy /\ (IF tie = "asc" THEN x <= y ELSE x >= y)

RECURSIVE nearestFirst(_, _, _, _, _)
nearestFirst(S, index, q, k, tie) ==
  IF S = {} \/ k <= 0 THEN << >>
  ELSE LET m == CHOOSE x \in S : \A y \in S : Nearer(index, q, tie, x, y)
       IN  <<[label |-> m, distance |-> Dist100(q, index.points[m])]>>
             \o nearestFirst(S \ {m}, index, q, k - 1, tie)

\* searchKnn(queryEmbedding, k): up to k live points, ascending by distance.
searchKnn(index, q, k, tie) == nearestFirst(LivePoints(index), index, q, k, tie)

(***************************************************************************)
(* Metadata store                                                          *)
(***************************************************************************)
EmptyMetadata ==
  [count |-> 0, userDocuments |-> << >>, documents |-> << >>,
   chunks |-> << >>, chunkToIndex |-> << >>]

Without(f, K) == [x \in DOMAIN f \ K |-> f[x]]

\* Date.prototype.toISOString and new Date(iso).getTime(): seconds and milliseconds fields.
toISOString(ms) == <<ms \div 1000, ms % 1000>>
getTime(iso) == iso[1] * 1000 + iso[2]

\* Mutant: the users' lists are written empty.
JSONstringifyNoLists(meta) ==
  << <<"count", meta.count>>, <<"userDocuments", << >> >>,
     <<"documents", meta.documents>>, <<"chunks", meta.chunks>>,
     <<"chunkToIndex", meta.chunkToIndex>> >>

\* JSON.stringify(documentMetadata, null, 2): the top-level members in order.
JSONstringify(meta) ==
  << <<"count", meta.count>>, <<"userDocuments", meta.userDocuments>>,
     <<"documents", meta.documents>>, <<"chunks", meta.chunks>>,
     <<"chunkToIndex", meta.chunkToIndex>> >>

HasField(json, name) == \E i \in 1..Len(json) : json[i][1] = name
Field(json, name) == json[CHOOSE i \in 1..Len(json) : json[i][1] = name][2]

NoFile == [exists |-> FALSE, valid |-> TRUE, json |-> << >>]

\* saveDocumentMetadata: the whole store rewritten.
saveDocumentMetadata(meta) == [exists |-> TRUE, valid |-> TRUE, json |-> JSONstringify(meta)]

\* Mutant: the defaults after a missing or unreadable file keep a counter of 1.
loadDocumentMetadataStaleCount(file) ==
  IF ~file.exists \/ ~file.valid \/ ~HasField(file.json, "documents")
  THEN [EmptyMetadata EXCEPT !.count = 1]
  ELSE [count         |-> Field(file.json, "count"),
        userDocuments |-> Field(file.json, "userDocuments"),
        documents     |-> Field(file.json, "documents"),
        chunks        |-> Field(file.json, "chunks"),
        chunkToIndex  |-> Field(file.json, "chunkToIndex")]

\* loadDocumentMetadata in a fresh process: the store it leaves in memory.
loadDocumentMetadata(file) ==
  IF ~file.exists THEN EmptyMetadata
  ELSE IF ~file.valid \/ ~HasField(file.json, "documents") THEN EmptyMetadata
  ELSE [count         |-> IF HasField(file.json, "count") THEN Field(file.json, "count") ELSE 0,
        userDocuments |-> Field(file.json, "userDocuments"),
        documents     |-> Field(file.json, "documents"),
        chunks        |-> IF HasField(file.json, "chunks") THEN Field(file.json, "chunks") ELSE << >>,
        chunkToIndex  |-> IF HasField(file.json, "chunkToIndex")
                          THEN Field(file.json, "chunkToIndex") ELSE << >>]

\* The metadata file after loadDocumentMetadata: rewritten when it was read.
metadataFileAfterLoad(file) ==
  IF file.exists /\ file.valid /\ HasField(file.json, "documents")
  THEN saveDocumentMetadata(loadDocumentMetadata(file))
  ELSE file

NoIndexFile == [exists |-> FALSE, index |-> NewIndex]

\* initDocumentVectorIndex: readIndex of the file, or a new index.
initDocumentVectorIndex(file) == IF file.exists THEN file.index ELSE NewIndex

writeIndex(index) == [exists |-> TRUE, index |-> index]

(***************************************************************************)
(* Stable descending sort, as Array.prototype.sort((a, b) => b - a)        *)
(***************************************************************************)
RECURSIVE insertDesc(_, _, _)
insertDesc(sorted, keys, i) ==
  IF sorted = << >> THEN <<i>>
  ELSE IF keys[Head(sorted)] >= keys[i]
       THEN <<Head(sorted)>> \o insertDesc(Tail(sorted), keys, i)
       ELSE <<i>> \o sorted

RECURSIVE sortedIndices(_, _)
sortedIndices(keys, n) ==
  IF n = 0 THEN << >> ELSE insertDesc(sortedIndices(keys, n - 1), keys, n)

\* seq sorted by descending keys[i], equal keys in their order in seq.
sortDesc(seq, keys) ==
  LET idx == sortedIndices(keys, Len(seq)) IN [j \in 1..Len(seq) |-> seq[idx[j]]]

SelectSeqBy(seq, keep) ==
  LET F[i \in 0..Len(seq)] ==
        IF i = 0 THEN << >>
        ELSE IF keep[i] THEN Append(F[i - 1], seq[i]) ELSE F[i - 1]
  IN  F[Len(seq)]

(***************************************************************************)
(* Document memory service: the synchronous pieces of each operation       *)
(***************************************************************************)
\* documentData of storeDocument; the saved file is named after the id.
DocumentData(documentId, userId, content, now) ==
  [id |-> documentId, userId |-> userId, filePath |-> documentId,
   content |-> content, uploadedAt |-> toISOString(now)]

\* documentMetadata.documents[documentId] = documentData
recordDocument(meta, documentData) ==
  [meta EXCEPT !.documents = (documentData.id :> documentData) @@ @]

ChunkId(documentId, i) == <<documentId, i>>

\* Mutant: the slot is the number of chunk records, not the counter.
nextSlotByRecords(meta) == Cardinality(DOMAIN meta.chunks)

\* The slot the next chunk is inserted at.
nextSlot(meta) == meta.count

\* Mutant: the counter is not incremented.
insertChunkMetaNoCount(meta, documentId, content, i) ==
  LET chunkId == <<documentId, i>>
      chunk   == [id |-> chunkId, documentId |-> documentId,
                  content |-> <<content, i>>, chunkIndex |-> i]
  IN  [meta EXCEPT !.chunks = (chunkId :> chunk) @@ @,
                   !.chunkToIndex = (chunkId :> meta.count) @@ @]

\* Mutant: the chunk's slot is not recorded.
insertChunkMetaNoMapping(meta, documentId, content, i) ==
  LET chunkId == <<documentId, i>>
      chunk   == [id |-> chunkId, documentId |-> documentId,
                  content |-> <<content, i>>, chunkIndex |-> i]
  IN  [meta EXCEPT !.chunks = (chunkId :> chunk) @@ @, !.count = @ + 1]

\* One iteration of the chunk loop after its embedding resolved: the store.
insertChunkMeta(meta, documentId, content, i) ==
  LET chunkId == ChunkId(documentId, i)
      chunk   == [id |-> chunkId, documentId |-> documentId,
                  content |-> <<content, i>>, chunkIndex |-> i]
  IN  [meta EXCEPT !.chunks = (chunkId :> chunk) @@ @,
                   !.chunkToIndex = (chunkId :> nextSlot(meta)) @@ @,
                   !.count = @ + 1]

\* One iteration of the chunk loop after its embedding resolved: the index.
insertChunkIndex(meta, index, content, i) ==
  addPoint(index, Embed(ChunkContent(<<content, i>>)), nextSlot(meta))

\* Mutant: the user's list is started anew at every store.
pushUserDocumentFresh(meta, userId, documentId) ==
  [meta EXCEPT !.userDocuments = (userId :> <<documentId>>) @@ @]

\* Mutant: the id is put first in the user's list.
pushUserDocumentFirst(meta, userId, documentId) ==
  LET list == IF userId \in DOMAIN meta.userDocuments THEN meta.userDocuments[userId] ELSE << >>
  IN  [meta EXCEPT !.userDocuments = (userId :> (<<documentId>> \o list)) @@ @]

\* documentMetadata.userDocuments[userId].push(documentId)
pushUserDocument(meta, userId, documentId) ==
  LET list == IF userId \in DOMAIN meta.userDocuments THEN meta.userDocuments[userId] ELSE << >>
  IN  [meta EXCEPT !.userDocuments = (userId :> Append(list, documentId)) @@ @]

\* if (documentMetadata.count % 10 === 0) writeIndex
indexFileAfterStore(meta, index, file) ==
  IF meta.count % IndexSavePeriod = 0 THEN writeIndex(index) ELSE file

ownedBy(meta, documentId, userId) ==
  documentId \in DOMAIN meta.documents /\ meta.documents[documentId].userId = userId

\* Mutant: the owner is not compared.
searchIncludesAnyOwner(meta, documentId, userId) == documentId \in DOMAIN meta.documents

\* searchDocuments: document && document.userId === userId
searchIncludes(meta, documentId, userId) == ownedBy(meta, documentId, userId)

\* Mutant: only a missing document is refused.
deleteRefusedMissingOnly(meta, documentId, userId) == documentId \notin DOMAIN meta.documents

\* Mutant: one user may delete the documents of the others.
deleteRefusedUnlessFirstUser(meta, documentId, userId) ==
  \/ documentId \notin DOMAIN meta.documents
  \/ (meta.documents[documentId].userId # userId /\ userId # "u1")

\* deleteDocument: !document || document.userId !== userId
deleteRefused(meta, documentId, userId) == ~ownedBy(meta, documentId, userId)

\* item.maxSimilarity + item.chunkCount * 0.1, in hundredths
combinedScore(maxSimilarity, chunkCount) == maxSimilarity + chunkCount * 10

\* Mutant: the chunk is not counted.
updateScoreNoCount(entry, similarity) ==
  [entry EXCEPT !.maxSimilarity = Max(@, similarity)]

\* Math.max(documentScores[id].maxSimilarity, similarity); chunkCount++
updateScore(entry, similarity) ==
  [entry EXCEPT !.maxSimilarity = Max(@, similarity), !.chunkCount = @ + 1]

\* The loop of searchDocuments over searchResults.neighbors, from the i-th on;
\* documentScores is kept in insertion order.
RECURSIVE aggregate(_, _, _, _, _)
aggregate(meta, userId, neighbors, i, documentScores) ==
  IF i > Len(neighbors) THEN documentScores
  ELSE
    LET vectorIndex == neighbors[i].label
        similarity  == 100 - neighbors[i].distance
        found       == {id \in DOMAIN meta.chunkToIndex : meta.chunkToIndex[id] = vectorIndex}
        chunkId     == CHOOSE id \in found : TRUE
        documentId  == meta.chunks[chunkId].documentId
        at          == {j \in 1..Len(documentScores) : documentScores[j].document.id = documentId}
        next        ==
          IF found = {} \/ chunkId \notin DOMAIN meta.chunks THEN documentScores
          ELSE IF ~searchIncludes(meta, documentId, userId) THEN documentScores
          ELSE IF at = {}
               THEN Append(documentScores,
                           [document |-> meta.documents[documentId],
                            maxSimilarity |-> similarity, chunkCount |-> 1])
               ELSE LET j == CHOOSE k \in at : TRUE
                    IN  [documentScores EXCEPT ![j] = updateScore(@, similarity)]
    IN  aggregate(meta, userId, neighbors, i + 1, next)

\* {...item.document, similarity: combined score}
scored(item) ==
  [id |-> item.document.id, userId |-> item.document.userId,
   filePath |-> item.document.filePath, content |-> item.document.content,
   uploadedAt |-> item.document.uploadedAt,
   similarity |-> combinedScore(item.maxSimilarity, item.chunkCount)]

\* Mutant: the results are not sorted.
rankedResultsUnsorted(documentScores) ==
  [j \in 1..Len(documentScores) |-> scored(documentScores[j])]

\* Object.values(documentScores).map(...).sort(...)
rankedResults(documentScores) ==
  LET all == [j \in 1..Len(documentScores) |-> scored(documentScores[j])]
  IN  sortDesc(all, [j \in 1..Len(all) |-> all[j].similarity])

\* Mutant: one result too few is kept.
truncateShort(results, limit) == slice(results, 0, limit - 1)

\* .slice(0, limit)
truncate(results, limit) == slice(results, 0, limit)

\* searchDocuments after the query embedding and searchKnn resolved.
searchResults(meta, userId, neighbors, limit) ==
  truncate(rankedResults(aggregate(meta, userId, neighbors, 1, << >>)), limit)

\* listUserDocuments
listUserDocuments(meta, userId) ==
  IF userId \notin DOMAIN meta.userDocuments THEN << >>
  ELSE LET ids      == meta.userDocuments[userId]
           present  == SelectSeqBy(ids, [j \in 1..Len(ids) |-> ids[j] \in DOMAIN meta.documents])
           docs     == [j \in 1..Len(present) |-> meta.documents[present[j]]]
       IN  sortDesc(docs, [j \in 1..Len(docs) |-> getTime(docs[j].uploadedAt)])

\* The chunk ids of a document, in the order Object.values(chunks) yields them.
RECURSIVE idsAscending(_)
idsAscending(S) ==
  IF S = {} THEN << >>
  ELSE LET m == CHOOSE x \in S : \A y \in S : x[2] <= y[2]
       IN  <<m>> \o idsAscending(S \ {m})

documentChunks(meta, documentId) ==
  idsAscending({id \in DOMAIN meta.chunks : meta.chunks[id].documentId = documentId})

\* The loop of deleteDocument over documentChunks, from the i-th on; it stops
\* where markDelete throws.
RECURSIVE deleteChunks(_, _, _, _)
deleteChunks(meta, index, ids, i) ==
  IF i > Len(ids) THEN [meta |-> meta, index |-> index, threw |-> FALSE]
  ELSE
    LET id == ids[i]
    IN  IF id \in DOMAIN meta.chunkToIndex
        THEN IF markDeleteThrows(index, meta.chunkToIndex[id])
             THEN [meta |-> meta, index |-> index, threw |-> TRUE]
             ELSE deleteChunks(
                    [meta EXCEPT !.chunkToIndex = Without(@, {id}),
                                 !.chunks = Without(@, {id})],
                    markDelete(index, meta.chunkToIndex[id]), ids, i + 1)
        ELSE deleteChunks([meta EXCEPT !.chunks = Without(@, {id})], index, ids, i + 1)

\* Mutant: the id stays in the user's list.
removeDocumentKeepsList(meta, userId, documentId) ==
  [meta EXCEPT !.documents = Without(@, {documentId})]

\* removeDocument without line 440: the document's record stays.
removeDocumentKeepsRecord(meta, userId, documentId) ==
  [meta EXCEPT
     !.userDocuments =
        IF userId \in DOMAIN @
        THEN [@ EXCEPT ![userId] =
                SelectSeqBy(@, [j \in 1..Len(@) |-> @[j] # documentId])]
        ELSE @]

\* delete documents[documentId]; userDocuments[userId] filtered
removeDocument(meta, userId, documentId) ==
  [meta EXCEPT
     !.documents = Without(@, {documentId}),
     !.userDocuments =
        IF userId \in DOMAIN @
        THEN [@ EXCEPT ![userId] =
                SelectSeqBy(@, [j \in 1..Len(@) |-> @[j] # documentId])]
        ELSE @]

\* deleteDocument: what it returns and what it leaves in memory and on disk.
deleteDocument(meta, index, fs, mfile, ifile, userId, documentId) ==
  IF deleteRefused(meta, documentId, userId)
  THEN [result |-> FALSE, meta |-> meta, index |-> index, files |-> fs,
        metadataFile |-> mfile, indexFile |-> ifile]
  ELSE
    LET unlinked == fs \ {meta.documents[documentId].filePath}
        looped   == deleteChunks(meta, index, documentChunks(meta, documentId), 1)
        removed  == removeDocument(looped.meta, userId, documentId)
    IN  IF looped.threw
        THEN [result |-> FALSE, meta |-> looped.meta, index |-> looped.index,
              files |-> unlinked, metadataFile |-> mfile, indexFile |-> ifile]
        ELSE [result |-> TRUE, meta |-> removed, index |-> looped.index,
              files |-> unlinked, metadataFile |-> saveDocumentMetadata(removed),
              indexFile |-> writeIndex(looped.index)]

(***************************************************************************)
(* State machine                                                           *)
(***************************************************************************)
\* What a caller can pass as filePath: an uploadable file, a path that does
\* not exist, a file parseFile cannot read.
Sources == FileNames \cup {"missing", "corrupt"}

\* How one generateDocumentEmbedding call ends: an embedding, pipeline() threw
\* ("Document embedding model not initialized"), or the model gave no data
\* ("Failed to generate document embedding").
EmbedOutcomes == {"ok", "initFailed", "noData"}

\* How the body of searchDocuments ends: as its embedding call does, or with
\* searchKnn throwing.
SearchOutcomes == EmbedOutcomes \cup {"knnFailed"}

\* The callers whose storeDocument calls Spec runs (one at a time).
Callers == {"p1"}

\* The locals of a storeDocument call; slot0 and slots record the counter at the
\* start of the call and the labels it has passed to addPoint, clean that no
\* other call has changed the store, the index or the files since it started.
NoCall == [documentId |-> 0, userId |-> "", content |-> "", i |-> 0, slot0 |-> 0,
           slots |-> << >>, clean |-> TRUE]

\* What a step returned: the operation, whether it took its success path,
\* whether it threw to its caller, and the arguments that are kept.
\* json is what vectorStore.execute answers: success and its error or message.
Response(success, text) == [success |-> success, text |-> text]

NoRet == [op |-> "none", ok |-> TRUE, threw |-> FALSE, message |-> "", userId |-> "",
          documentId |-> 0, json |-> Response(FALSE, "")]

\* Mutant: a thrown error is answered as a success.
executeSwallows(operation, threw, message, deleted) ==
  IF operation = "delete"
  THEN Response(deleted, IF deleted THEN "Document deleted successfully"
                                    ELSE "Failed to delete document")
  ELSE Response(TRUE, "")

\* vectorStore.execute once the operation's function has returned or thrown:
\* the switch branches after their calls, and the catch block.
execute(operation, threw, message, deleted) ==
  IF threw THEN Response(FALSE, message)
  ELSE CASE operation = "store"  -> Response(TRUE, "Document stored successfully")
         [] operation = "search" -> Response(TRUE, "")
         [] operation = "list"   -> Response(TRUE, "")
         [] operation = "delete" ->
              Response(deleted, IF deleted THEN "Document deleted successfully"
                                           ELSE "Failed to delete document")
         [] OTHER                -> Response(FALSE, "Unknown operation")

\* The calls vectorStore.execute answers without calling a function: a store
\* without filePath or originalName, a search without query, a delete without
\* documentId, an operation it does not know.
RejectedOperations == {"store", "search", "delete", "unknown"}

executeRejects(operation) ==
  CASE operation = "store"  ->
         Response(FALSE, "File path and original name are required for store operation")
    [] operation = "search" -> Response(FALSE, "Query is required for search operation")
    [] operation = "delete" -> Response(FALSE, "Document ID is required for delete operation")
    [] OTHER                -> Response(FALSE, "Unknown operation")

Returned(op, ok, documentId) == [NoRet EXCEPT !.op = op, !.ok = ok, !.documentId = documentId]

\* storeDocument: catch (error) { throw error; }
StoreThrew(message) ==
  [Returned("store", FALSE, 0) EXCEPT !.threw = TRUE, !.message = message,
                                      !.json = execute("store", TRUE, message, FALSE)]

\* The message of the error generateDocumentEmbedding throws.
EmbedError(outcome) ==
  IF outcome = "initFailed" THEN "Document embedding model not initialized"
  ELSE "Failed to generate document embedding"

\* The calls of generateDocumentEmbedding that can be in progress at once:
\* one per storeDocument call and one of a searchDocuments call.
EmbedCallers == Procs \cup {"search"}

NoEmbedRun == [pc |-> [c \in EmbedCallers |-> "idle"],
               pipeline |-> [c \in EmbedCallers |-> 0],
               model |-> [c \in EmbedCallers |-> 0],
               created |-> 0, inits |-> 0, used |-> {}]

NoChunkRun == [pc |-> "unused", text |-> << >>, chunkSize |-> 1, overlap |-> 0, chunks |-> << >>]

Init ==
  /\ documentMetadata = EmptyMetadata
  /\ documentVectorIndex = NewIndex
  /\ documentEmbedder = 0
  /\ files = {}
  /\ metadataFile = NoFile
  /\ indexFile = NoIndexFile
  /\ pc = [p \in Procs |-> "idle"]
  /\ call = [p \in Procs |-> NoCall]
  /\ nextId = 1
  /\ clock = 999
  /\ ret = NoRet
  /\ hist = [stored |-> {}, deleteCalled |-> {}, deleted |-> {}, partial |-> {}, raced |-> {},
          slots |-> {}]
  /\ chunkRun = NoChunkRun
  /\ embedRun = NoEmbedRun

\* getDocumentEmbedder: the embedder after a call that ended `outcome`.
embedderAfter(embedder, outcome) ==
  IF outcome = "initFailed" THEN 0 ELSE IF embedder = 0 THEN 1 ELSE embedder

\* pipeline() can only fail while documentEmbedder is null.
EmbedPossible(outcome) == outcome = "initFailed" => documentEmbedder = 0

\* storeDocument up to `await parseFile`: the id is drawn and the file saved.
StoreBegin(p, userId, src) ==
  /\ pc[p] = "idle"
  /\ nextId <= MaxDocs
  /\ IF src = "missing"
     THEN /\ ret' = StoreThrew("File not found and no buffer provided")
          /\ UNCHANGED <<files, pc, call, nextId>>
     ELSE /\ files' = files \cup {nextId}
          /\ pc' = [pc EXCEPT ![p] = "parse"]
          /\ call' = [call EXCEPT ![p] =
                        [documentId |-> nextId, userId |-> userId, content |-> src,
                         i |-> 0, slot0 |-> documentMetadata.count, slots |-> << >>,
                         clean |-> TRUE]]
          /\ nextId' = nextId + 1
          /\ ret' = NoRet
  /\ UNCHANGED <<documentMetadata, documentVectorIndex, documentEmbedder,
                 metadataFile, indexFile, clock, hist, chunkRun, embedRun>>

\* The end of storeDocument, run in the same turn as the last chunk's insert:
\* the user's list, the metadata file, the index file, the returned id.
StoreFinish(p, meta, index, added) ==
  LET c     == call[p]
      final == pushUserDocument(meta, c.userId, c.documentId)
  IN  /\ documentMetadata' = final
      /\ documentVectorIndex' = index
      /\ metadataFile' = saveDocumentMetadata(final)
      /\ indexFile' = indexFileAfterStore(final, index, indexFile)
      /\ pc' = [pc EXCEPT ![p] = "idle"]
      /\ call' = [call EXCEPT ![p] = NoCall]
      /\ ret' = [Returned("store", TRUE, c.documentId) EXCEPT
                    !.json = execute("store", FALSE, "", FALSE)]
      /\ hist' = [hist EXCEPT !.stored = @ \cup {c.documentId}, !.slots = @ \cup added]

\* parseFile resolved: the document is recorded and chunked.
StoreParsed(p) ==
  /\ pc[p] = "parse"
  /\ LET c == call[p]
     IN  IF c.content = "corrupt"
         THEN /\ pc' = [pc EXCEPT ![p] = "idle"]
              /\ call' = [call EXCEPT ![p] = NoCall]
              /\ ret' = StoreThrew("Unsupported file type")
              /\ UNCHANGED <<documentMetadata, documentVectorIndex, metadataFile,
                             indexFile, clock, hist>>
         ELSE LET now      == clock + 1
                  recorded == recordDocument(documentMetadata,
                                DocumentData(c.documentId, c.userId, c.content, now))
              IN  /\ clock' = now
                  /\ IF Len(ChunkTable[c.content]) = 0
                     THEN StoreFinish(p, recorded, documentVectorIndex, {})
                     ELSE /\ documentMetadata' = recorded
                          /\ pc' = [pc EXCEPT ![p] = "embed"]
                          /\ ret' = NoRet
                          /\ UNCHANGED <<documentVectorIndex, metadataFile,
                                         indexFile, call, hist>>
  /\ UNCHANGED <<documentEmbedder, files, nextId, chunkRun, embedRun>>

\* generateDocumentEmbedding(chunks[i]) resolved or threw.
StoreEmbedded(p, outcome) ==
  /\ pc[p] = "embed"
  /\ EmbedPossible(outcome)
  /\ documentEmbedder' = embedderAfter(documentEmbedder, outcome)
  /\ LET c == call[p]
     IN  IF outcome # "ok"
         THEN /\ pc' = [pc EXCEPT ![p] = "idle"]
              /\ call' = [call EXCEPT ![p] = NoCall]
              /\ ret' = StoreThrew(EmbedError(outcome))
              /\ UNCHANGED <<documentMetadata, documentVectorIndex, metadataFile,
                             indexFile, hist>>
         ELSE LET index == insertChunkIndex(documentMetadata, documentVectorIndex, c.content, c.i)
                  meta  == insertChunkMeta(documentMetadata, c.documentId, c.content, c.i)
              IN  IF c.i + 1 < Len(ChunkTable[c.content])
                  THEN /\ documentMetadata' = meta
                       /\ documentVectorIndex' = index
                       /\ call' = [call EXCEPT ![p].i = c.i + 1,
                                                ![p].slots = Append(@, nextSlot(documentMetadata))]
                       /\ ret' = NoRet
                       /\ hist' = [hist EXCEPT !.slots = @ \cup {nextSlot(documentMetadata)}]
                       /\ UNCHANGED <<pc, metadataFile, indexFile>>
                  ELSE StoreFinish(p, meta, index, {nextSlot(documentMetadata)})
  /\ UNCHANGED <<files, nextId, clock, chunkRun, embedRun>>

\* searchDocuments(userId, query, limit) in the current state, with the
\* index answering in tie order `tie`: what it returns.
searchDocuments(userId, query, limit, tie) ==
  searchResults(documentMetadata, userId,
                searchKnn(documentVectorIndex, Embed(TextOf(query)), limit * 3, tie), limit)

\* Mutant: the catch block of searchDocuments throws the error on.
searchThrowsUncaught(outcome) == outcome # "ok"

\* searchDocuments: catch (error) { return []; } lets no error through.
searchThrows(outcome) == FALSE

\* What searchDocuments(userId, query, limit) returns when its body ends `outcome`.
searchReturn(userId, query, limit, tie, outcome) ==
  IF outcome = "ok" THEN searchDocuments(userId, query, limit, tie) ELSE << >>

\* A searchDocuments call: its query embedding resolves or throws, or the
\* index query throws.  What it returns is searchReturn(...) of the state it
\* leaves.
Search(outcome) ==
  /\ EmbedPossible(outcome)
  /\ documentEmbedder' = embedderAfter(documentEmbedder, outcome)
  /\ ret' = [Returned("search", outcome = "ok", 0) EXCEPT
                !.threw = searchThrows(outcome),
                !.json = execute("search", searchThrows(outcome), "", FALSE)]
  /\ UNCHANGED <<documentMetadata, documentVectorIndex, files, metadataFile, indexFile,
                 pc, call, nextId, clock, hist, chunkRun, embedRun>>

\* A listUserDocuments call: it returns listUserDocuments(documentMetadata, userId).
List ==
  /\ ret' = [Returned("list", TRUE, 0) EXCEPT !.json = execute("list", FALSE, "", FALSE)]
  /\ UNCHANGED <<storeVars, chunkRun, embedRun>>

\* deleteDocument has no await: it runs in one turn.
Delete(userId, documentId) ==
  LET d == deleteDocument(documentMetadata, documentVectorIndex, files, metadataFile,
                          indexFile, userId, documentId)
  IN  /\ documentMetadata' = d.meta
      /\ documentVectorIndex' = d.index
      /\ files' = d.files
      /\ metadataFile' = d.metadataFile
      /\ indexFile' = d.indexFile
      /\ ret' = [Returned("delete", d.result, documentId) EXCEPT
                    !.userId = userId, !.json = execute("delete", FALSE, "", d.result)]
      /\ hist' = [hist EXCEPT
                    !.deleteCalled = IF ownedBy(documentMetadata, documentId, userId)
                                     THEN @ \cup {documentId} ELSE @,
                    !.deleted = IF d.result THEN @ \cup {documentId} ELSE @,
                    !.partial = IF ~d.result /\ ~deleteRefused(documentMetadata, documentId, userId)
                                THEN @ \cup {documentId} ELSE @,
                    !.raced = IF d.result /\ \E p \in Procs :
                                   pc[p] # "idle" /\ call[p].documentId = documentId
                              THEN @ \cup {documentId} ELSE @]
      /\ call' = [p \in Procs |->
                    IF pc[p] # "idle" /\ <<d.meta, d.index, d.files>> #
                                           <<documentMetadata, documentVectorIndex, files>>
                    THEN [call[p] EXCEPT !.clean = FALSE] ELSE call[p]]
      /\ UNCHANGED <<documentEmbedder, pc, nextId, clock, chunkRun, embedRun>>

\* vectorStore.execute called without an argument its operation needs, or
\* with an operation it does not know: it answers at once.
ExecuteRejected(operation) ==
  /\ ret' = [Returned("rejected", FALSE, 0) EXCEPT !.json = executeRejects(operation)]
  /\ UNCHANGED <<storeVars, chunkRun, embedRun>>

\* The process ends (every pending call with it) and starts again:
\* initDocumentVectorIndex(); loadDocumentMetadata().
Restart ==
  /\ documentVectorIndex' = initDocumentVectorIndex(indexFile)
  /\ documentMetadata' = loadDocumentMetadata(metadataFile)
  /\ metadataFile' = metadataFileAfterLoad(metadataFile)
  /\ documentEmbedder' = 0
  /\ pc' = [p \in Procs |-> "idle"]
  /\ call' = [p \in Procs |-> NoCall]
  /\ ret' = Returned("restart", TRUE, 0)
  /\ UNCHANGED <<files, indexFile, nextId, clock, hist, chunkRun, embedRun>>

Next ==
  \/ \E p \in Callers, userId \in Users, src \in Sources : StoreBegin(p, userId, src)
  \/ \E p \in Callers : StoreParsed(p)
  \/ \E p \in Callers, outcome \in EmbedOutcomes : StoreEmbedded(p, outcome)
  \/ \E outcome \in SearchOutcomes : Search(outcome)
  \/ List
  \/ \E operation \in RejectedOperations : ExecuteRejected(operation)
  \/ \E userId \in Users, documentId \in 1..MaxDocs : Delete(userId, documentId)
  \/ Restart

Spec == Init /\ [][Next]_vars

(***************************************************************************)
(* Two storeDocument calls in progress at once.  Each await of             *)
(* storeDocument is a point where the other call, or a deleteDocument,     *)
(* runs; between two awaits a call runs alone.                             *)
(***************************************************************************)
NextConc ==
  \/ \E p \in Procs, userId \in Users, src \in Sources : StoreBegin(p, userId, src)
  \/ \E p \in Procs : StoreParsed(p)
  \/ \E p \in Procs, outcome \in EmbedOutcomes : StoreEmbedded(p, outcome)
  \/ \E userId \in Users, documentId \in 1..MaxDocs : Delete(userId, documentId)

SpecConc == Init /\ [][NextConc]_vars

(***************************************************************************)
(* A store that has run for a while: earlier documents filled the slots    *)
(* below the counter and were deleted again, so the last delete wrote both *)
(* files.                                                                  *)
(***************************************************************************)
AgedCounts == {MinAgedCount + k : k \in 0..2}

AgedMetadata(n) == [EmptyMetadata EXCEPT !.count = n, !.userDocuments = ("u1" :> << >>)]

AgedIndex(n) == [points |-> [label \in 0..(n - 1) |-> 0], deleted |-> 0..(n - 1)]

InitAged ==
  /\ \E n \in AgedCounts :
       /\ documentMetadata = AgedMetadata(n)
       /\ documentVectorIndex = AgedIndex(n)
       /\ metadataFile = saveDocumentMetadata(AgedMetadata(n))
       /\ indexFile = writeIndex(AgedIndex(n))
       /\ hist = [stored |-> {}, deleteCalled |-> {}, deleted |-> {}, partial |-> {},
                  raced |-> {}, slots |-> 0..(n - 1)]
  /\ documentEmbedder = 0
  /\ files = {}
  /\ pc = [p \in Procs |-> "idle"]
  /\ call = [p \in Procs |-> NoCall]
  /\ nextId = 1
  /\ clock = 999
  /\ ret = NoRet
  /\ chunkRun = NoChunkRun
  /\ embedRun = NoEmbedRun

NextAged ==
  \/ \E p \in Callers, userId \in Users, src \in Sources : StoreBegin(p, userId, src)
  \/ \E p \in Callers : StoreParsed(p)
  \/ \E p \in Callers, outcome \in EmbedOutcomes : StoreEmbedded(p, outcome)
  \/ \E userId \in Users, documentId \in 1..MaxDocs : Delete(userId, documentId)
  \/ Restart

SpecAged == InitAged /\ [][NextAged]_vars

(***************************************************************************)
(* generateDocumentEmbedding step by step.  getDocumentEmbedder tests      *)
(* documentEmbedder, and when it is null awaits pipeline() before it       *)
(* assigns; the caller then awaits the model.  Other calls run at each     *)
(* await.                                                                  *)
(***************************************************************************)
\* What the caller of a failed generateDocumentEmbedding gets: storeDocument
\* throws the error on, searchDocuments returns [].
EmbedFailed(c, outcome) ==
  IF c = "search"
  THEN [Returned("search", FALSE, 0) EXCEPT !.json = execute("search", FALSE, "", FALSE)]
  ELSE StoreThrew(EmbedError(outcome))

\* generateDocumentEmbedding is called: getDocumentEmbedder runs to its
\* await of pipeline(), or returns the embedder it finds.
EmbedBegin(c) ==
  /\ embedRun.pc[c] = "idle"
  /\ IF documentEmbedder = 0
     THEN /\ embedRun.created < MaxPipelines
          /\ embedRun' = [embedRun EXCEPT !.pc[c] = "pipeline",
                                          !.pipeline[c] = embedRun.created + 1,
                                          !.created = @ + 1]
     ELSE embedRun' = [embedRun EXCEPT !.pc[c] = "model", !.model[c] = documentEmbedder]
  /\ ret' = NoRet
  /\ UNCHANGED <<storeVars, chunkRun>>

\* pipeline() resolved: documentEmbedder is assigned and returned; or it
\* threw: getDocumentEmbedder returns null and the call throws.
PipelineSettled(c, ok) ==
  /\ embedRun.pc[c] = "pipeline"
  /\ IF ok
     THEN /\ documentEmbedder' = embedRun.pipeline[c]
          /\ embedRun' = [embedRun EXCEPT !.pc[c] = "model",
                                          !.model[c] = embedRun.pipeline[c],
                                          !.pipeline[c] = 0,
                                          !.inits = @ + 1]
          /\ ret' = NoRet
     ELSE /\ embedRun' = [embedRun EXCEPT !.pc[c] = "idle", !.pipeline[c] = 0]
          /\ ret' = EmbedFailed(c, "initFailed")
          /\ UNCHANGED documentEmbedder
  /\ UNCHANGED <<documentMetadata, documentVectorIndex, files, metadataFile, indexFile,
                 pc, call, nextId, clock, hist, chunkRun>>

\* await model(text, ...) resolved, with data or without.
ModelSettled(c, hasData) ==
  /\ embedRun.pc[c] = "model"
  /\ embedRun' = [embedRun EXCEPT !.pc[c] = "idle", !.model[c] = 0,
                                  !.used = @ \cup {embedRun.model[c]}]
  /\ ret' = IF hasData THEN [NoRet EXCEPT !.op = "embed"] ELSE EmbedFailed(c, "noData")
  /\ UNCHANGED <<storeVars, chunkRun>>

NextEmbed ==
  \/ \E c \in EmbedCallers : EmbedBegin(c)
  \/ \E c \in EmbedCallers, ok \in BOOLEAN : PipelineSettled(c, ok)
  \/ \E c \in EmbedCallers, hasData \in BOOLEAN : ModelSettled(c, hasData)

SpecEmbed == Init /\ [][NextEmbed]_vars

(***************************************************************************)
(* Startup on a metadata file that is missing or cannot be parsed          *)
(***************************************************************************)
\* A metadata file JSON.parse throws on.
UnparsableFile == [exists |-> TRUE, valid |-> FALSE, json |-> << >>]

\* An index file written by an earlier life of the process: two points, one
\* of them soft-deleted.
EarlierIndexFile == writeIndex(markDelete(addPoint(addPoint(NewIndex, 0, 0), 1, 1), 1))

\* The files the process starts on.
StartFiles ==
  {<<UnparsableFile, NoIndexFile>>, <<UnparsableFile, EarlierIndexFile>>,
   <<NoFile, EarlierIndexFile>>}

\* The state after initDocumentVectorIndex(); loadDocumentMetadata() on those files.
InitLoad ==
  /\ \E f \in StartFiles : metadataFile = f[1] /\ indexFile = f[2]
  /\ documentVectorIndex = initDocumentVectorIndex(indexFile)
  /\ documentMetadata = loadDocumentMetadata(metadataFile)
  /\ documentEmbedder = 0
  /\ files = {}
  /\ pc = [p \in Procs |-> "idle"]
  /\ call = [p \in Procs |-> NoCall]
  /\ nextId = 1
  /\ clock = 999
  /\ ret = Returned("restart", TRUE, 0)
  /\ hist = [stored |-> {}, deleteCalled |-> {}, deleted |-> {}, partial |-> {}, raced |-> {},
          slots |-> {}]
  /\ chunkRun = NoChunkRun
  /\ embedRun = NoEmbedRun

SpecLoad == InitLoad /\ [][Next]_vars

(***************************************************************************)
(* chunkText alone: its arguments drawn from bounded sets, then applied    *)
(***************************************************************************)
Texts == UNION {[1..n -> {0, 1}] : n \in 0..MaxTextLen}

ChunkInputs ==
  {[pc |-> "called", text |-> t, chunkSize |-> s, overlap |-> o, chunks |-> << >>] :
     t \in Texts, s \in 1..MaxChunkSize, o \in 0..(MaxChunkSize - 1)}

InitChunk ==
  /\ documentMetadata = EmptyMetadata
  /\ documentVectorIndex = NewIndex
  /\ documentEmbedder = 0
  /\ files = {}
  /\ metadataFile = NoFile
  /\ indexFile = NoIndexFile
  /\ pc = [p \in Procs |-> "idle"]
  /\ call = [p \in Procs |-> NoCall]
  /\ nextId = 1
  /\ clock = 999
  /\ ret = NoRet
  /\ hist = [stored |-> {}, deleteCalled |-> {}, deleted |-> {}, partial |-> {}, raced |-> {},
          slots |-> {}]
  /\ chunkRun \in {r \in ChunkInputs : r.overlap < r.chunkSize}
  /\ embedRun = NoEmbedRun

ChunkApply ==
  /\ chunkRun.pc = "called"
  /\ chunkRun' = [chunkRun EXCEPT
                    !.pc = "returned",
                    !.chunks = chunkText(chunkRun.text, chunkRun.chunkSize, chunkRun.overlap)]
  /\ UNCHANGED <<storeVars, ret, embedRun>>

NextChunk == ChunkApply

SpecChunk == InitChunk /\ [][NextChunk]_vars

(***************************************************************************)
(* chunkText's while loop, one iteration per step, for every overlap in    *)
(* 0..MaxChunkSize: overlap >= chunkSize included.  The loop is            *)
(* synchronous, so an iteration that can run does run.                     *)
(***************************************************************************)
LoopInputs ==
  {[pc |-> "loop", text |-> t, chunkSize |-> s, overlap |-> o, chunks |-> << >>, start |-> 0] :
     t \in Texts, s \in 1..MaxChunkSize, o \in 0..MaxChunkSize}

InitChunkLoop ==
  /\ documentMetadata = EmptyMetadata
  /\ documentVectorIndex = NewIndex
  /\ documentEmbedder = 0
  /\ files = {}
  /\ metadataFile = NoFile
  /\ indexFile = NoIndexFile
  /\ pc = [p \in Procs |-> "idle"]
  /\ call = [p \in Procs |-> NoCall]
  /\ nextId = 1
  /\ clock = 999
  /\ ret = NoRet
  /\ hist = [stored |-> {}, deleteCalled |-> {}, deleted |-> {}, partial |-> {}, raced |-> {},
             slots |-> {}]
  /\ chunkRun \in LoopInputs
  /\ embedRun = NoEmbedRun

\* Mutant: the next window starts one character further back.
nextStartBack(end, overlap) == end - overlap - 1

\* start = end - overlap
nextStart(end, overlap) == end - overlap

\* The loop test and one pass through the loop body.
ChunkIterate ==
  /\ chunkRun.pc = "loop"
  /\ Len(chunkRun.chunks) < MaxIterations
  /\ IF ~(chunkRun.start < Len(chunkRun.text))
     THEN chunkRun' = [chunkRun EXCEPT !.pc = "returned"]
     ELSE LET end    == Min(chunkRun.start + chunkRun.chunkSize, Len(chunkRun.text))
              pushed == Append(chunkRun.chunks, slice(chunkRun.text, chunkRun.start, end))
          IN  IF end >= Len(chunkRun.text)
              THEN chunkRun' = [chunkRun EXCEPT !.pc = "returned", !.chunks = pushed]
              ELSE chunkRun' = [chunkRun EXCEPT !.chunks = pushed,
                                                !.start = nextStart(end, chunkRun.overlap)]
  /\ UNCHANGED <<storeVars, ret, embedRun>>

NextChunkLoop == ChunkIterate

SpecChunkLoop == InitChunkLoop /\ [][NextChunkLoop]_vars /\ WF_vars(NextChunkLoop)

(***************************************************************************)
(* Properties                                                              *)
(***************************************************************************)
Ids(seq) == {seq[j].id : j \in 1..Len(seq)}

\* What searchKnn answers for `query` with limit `limit` in the current state.
Neighbors(query, limit, tie) ==
  searchKnn(documentVectorIndex, Embed(TextOf(query)), limit * 3, tie)

Labels(neighbors) == {neighbors[j].label : j \in 1..Len(neighbors)}

\* The chunk ids mapped to `slot` whose chunk and document records exist.
ChunksAt(slot) ==
  {c \in DOMAIN documentMetadata.chunkToIndex :
     /\ documentMetadata.chunkToIndex[c] = slot
     /\ c \in DOMAIN documentMetadata.chunks
     /\ documentMetadata.chunks[c].documentId \in DOMAIN documentMetadata.documents}

OwnersAt(slot) ==
  {documentMetadata.documents[documentMetadata.chunks[c].documentId].userId : c \in ChunksAt(slot)}

\* C1: every document searchDocuments(userId, ...) returns is owned by userId,
\* whatever the query, the limit and the order of the index's answer.
C1_Isolation ==
  \A u \in Users, q \in Queries, l \in Limits, tie \in TieOrders :
    LET results == searchDocuments(u, q, l, tie)
    IN  \A j \in 1..Len(results) :
          /\ results[j].userId = u
          /\ results[j].id \in DOMAIN documentMetadata.documents
          /\ documentMetadata.documents[results[j].id].userId = u

\* A search has returned in a state where the nearest neighbour of the query is
\* another user's chunk and the caller still gets a document of its own.
C1_Witness ==
  /\ ret.op = "search" /\ ret.ok
  /\ \E u \in Users, q \in Queries, l \in Limits, tie \in TieOrders :
       LET nb == Neighbors(q, l, tie)
       IN  /\ Len(nb) >= 1
           /\ OwnersAt(nb[1].label) # {}
           /\ u \notin OwnersAt(nb[1].label)
           /\ Len(searchDocuments(u, q, l, tie)) >= 1

RECURSIVE stripJoin(_, _, _)
stripJoin(chunks, overlap, i) ==
  IF i > Len(chunks) THEN << >>
  ELSE SubSeq(chunks[i], overlap + 1, Len(chunks[i])) \o stripJoin(chunks, overlap, i + 1)

\* The first chunk followed by every later chunk without its first `overlap` units.
Reconstructed(chunks, overlap) ==
  IF chunks = << >> THEN << >> ELSE chunks[1] \o stripJoin(chunks, overlap, 2)

\* C7: for a non-empty text and 0 <= overlap < chunkSize, the chunks of
\* chunkText rebuild the text: the first chunk, then each later chunk without
\* its first `overlap` units.
C7_ChunkReconstruct ==
  (chunkRun.pc = "returned" /\ chunkRun.text # << >>)
    => Reconstructed(chunkRun.chunks, chunkRun.overlap) = chunkRun.text

\* chunkText has returned three or more overlapping chunks.
C7_Witness ==
  /\ chunkRun.pc = "returned"
  /\ Len(chunkRun.chunks) >= 3
  /\ chunkRun.overlap >= 1
  /\ Reconstructed(chunkRun.chunks, chunkRun.overlap) = chunkRun.text

\* C2: once deleteDocument(userId, documentId) was called by the owner of the
\* document, no listUserDocuments and no searchDocuments returns it and its
\* file is not in the documents directory.
C2_DeletedIsGone ==
  \A d \in hist.deleteCalled :
    /\ d \notin files
    /\ \A u \in Users : d \notin Ids(listUserDocuments(documentMetadata, u))
    /\ \A u \in Users, q \in Queries, l \in Limits, tie \in TieOrders :
         d \notin Ids(searchDocuments(u, q, l, tie))

\* C3: deleteDocument(userId, documentId) on a document of another user
\* returns false and changes neither the store, the index, the files of the
\* documents directory, the metadata file nor the index file.
C3_DeleteOtherOwner ==
  [][(/\ ret'.op = "delete"
      /\ ret'.documentId \in DOMAIN documentMetadata.documents
      /\ documentMetadata.documents[ret'.documentId].userId # ret'.userId)
       => (/\ ~ret'.ok
           /\ UNCHANGED <<documentMetadata, documentVectorIndex, files,
                          metadataFile, indexFile>>)]_vars

\* deleteDocument has returned false to a user who asked for another user's
\* listed document, which still has its file.
C3_Witness ==
  /\ ret.op = "delete" /\ ~ret.ok
  /\ ret.documentId \in DOMAIN documentMetadata.documents
  /\ documentMetadata.documents[ret.documentId].userId # ret.userId
  /\ ret.documentId \in files
  /\ \E u \in Users : ret.documentId \in Ids(listUserDocuments(documentMetadata, u))

\* The positions of the index's answer that resolve to a chunk of document d.
HitsOf(neighbors, d) ==
  {j \in 1..Len(neighbors) :
     \E c \in ChunksAt(neighbors[j].label) : documentMetadata.chunks[c].documentId = d}

\* The documents of user u with a chunk in the index's answer.
HitDocs(u, neighbors) ==
  {d \in DOMAIN documentMetadata.documents :
     documentMetadata.documents[d].userId = u /\ HitsOf(neighbors, d) # {}}

MaxOf(S) == CHOOSE x \in S : \A y \in S : y <= x

\* maxSimilarity + 0.1 * chunkCount of document d over the index's answer, in hundredths.
ScoreOf(neighbors, d) ==
  MaxOf({100 - neighbors[j].distance : j \in HitsOf(neighbors, d)})
    + 10 * Cardinality(HitsOf(neighbors, d))

IsSubstring(needle, hay) ==
  \E k \in 0..(Len(hay) - Len(needle)) : SubSeq(hay, k + 1, k + Len(needle)) = needle

\* The chunks (by content reference) that hold the query text as a substring.
QueryInChunk ==
  [q \in Queries |->
     {ref \in FileNames \X (0..2) :
        /\ ref[2] < Len(ChunkTable[ref[1]])
        /\ IsSubstring(TextOf(q), ChunkContent(ref))}]

\* The chunk ids of document d whose records and slots exist.
ChunksOf(d) ==
  {c \in DOMAIN documentMetadata.chunks \cap DOMAIN documentMetadata.chunkToIndex :
     documentMetadata.chunks[c].documentId = d}

\* The slot holds a live point no farther from the query than any other live point.
IsNearest(slot, q) ==
  /\ slot \in LivePoints(documentVectorIndex)
  /\ \A s \in LivePoints(documentVectorIndex) :
       Dist100(Embed(TextOf(q)), documentVectorIndex.points[slot])
         <= Dist100(Embed(TextOf(q)), documentVectorIndex.points[s])

Live == (hist.stored \ hist.deleted) \cap DOMAIN documentMetadata.documents

\* C4 as stated: a stored, not-deleted document is returned to its owner for a
\* query that is a substring of one of its chunks, that chunk being a nearest
\* neighbour of the query, for every limit and whatever else is indexed.
C4_RecallAnyLimit ==
  \A u \in Users, q \in Queries, l \in Limits, tie \in TieOrders :
    \A d \in Live :
      (/\ documentMetadata.documents[d].userId = u
       /\ \E c \in ChunksOf(d) :
            /\ documentMetadata.chunks[c].content \in QueryInChunk[q]
            /\ IsNearest(documentMetadata.chunkToIndex[c], q))
        => d \in Ids(searchDocuments(u, q, l, tie))

\* C4: a stored, not-deleted document is returned to its owner for a query
\* that is a substring of one of its chunks whenever that chunk's slot is among
\* the 3*limit neighbours the index answers with and at most `limit` documents
\* of the caller have a chunk among those neighbours.
C4_RecallWithinLimit ==
  \A u \in Users, q \in Queries, l \in Limits, tie \in TieOrders :
    LET nb == Neighbors(q, l, tie)
    IN  \A d \in Live :
          (/\ documentMetadata.documents[d].userId = u
           /\ Cardinality(HitDocs(u, nb)) <= l
           /\ \E c \in ChunksOf(d) :
                /\ documentMetadata.chunks[c].content \in QueryInChunk[q]
                /\ documentMetadata.chunkToIndex[c] \in Labels(nb))
            => d \in Ids(searchDocuments(u, q, l, tie))

\* A search returned while a user's document holding the query text sits in the
\* index next to a nearer chunk of another user's document, and is returned.
C4_Witness ==
  /\ ret.op = "search" /\ ret.ok
  /\ \E u \in Users, q \in Queries, l \in Limits, tie \in TieOrders :
       LET nb == Neighbors(q, l, tie)
       IN  \E d \in Live :
             /\ documentMetadata.documents[d].userId = u
             /\ Cardinality(HitDocs(u, nb)) <= l
             /\ \E c \in ChunksOf(d) :
                  /\ documentMetadata.chunks[c].content \in QueryInChunk[q]
                  /\ documentMetadata.chunkToIndex[c] \in Labels(nb)
             /\ Cardinality(DOMAIN documentMetadata.documents) = 2
             /\ d \in Ids(searchDocuments(u, q, l, tie))

\* C5: listUserDocuments(userId) holds exactly the documents userId stored
\* successfully and has not deleted, each once, newest upload first.
C5_ListExact ==
  /\ hist.stored \ hist.deleted \subseteq DOMAIN documentMetadata.documents
  /\ \A u \in Users :
       LET list == listUserDocuments(documentMetadata, u)
           mine == {d \in Live : documentMetadata.documents[d].userId = u}
       IN  /\ Ids(list) = mine
           /\ Len(list) = Cardinality(mine)
           /\ \A j, k \in 1..Len(list) :
                j < k => getTime(list[j].uploadedAt) >= getTime(list[k].uploadedAt)

\* A list call returned while a user has two documents, the later upload listed
\* first, and another user none.
C5_Witness ==
  /\ ret.op = "list"
  /\ \E u \in Users :
       LET list == listUserDocuments(documentMetadata, u)
       IN  /\ Len(list) = 2
           /\ getTime(list[1].uploadedAt) > getTime(list[2].uploadedAt)
           /\ documentMetadata.userDocuments[u][1] = list[2].id
  /\ \E u \in Users : listUserDocuments(documentMetadata, u) = << >>

\* C6: a restart leaves listUserDocuments(userId) of every user as it was.
C6_RoundTrip ==
  [][ret'.op = "restart"
       => \A u \in Users :
            listUserDocuments(documentMetadata', u) = listUserDocuments(documentMetadata, u)]_vars

\* The process restarted after stores and a delete, and a document is listed.
C6_Witness ==
  /\ ret.op = "restart"
  /\ hist.deleted # {}
  /\ \E u \in Users : Len(listUserDocuments(documentMetadata, u)) >= 1
  /\ metadataFile.exists

\* Process p's store of a 2500-unit text returns in this step.
LongStoreReturns(p) ==
  /\ pc[p] = "embed" /\ pc'[p] = "idle"
  /\ Len(TextOf(call[p].content)) = 2500
  /\ ret'.op = "store" /\ ret'.ok /\ ret'.documentId = call[p].documentId

\* The store p completes in this step made n chunks, embedded and inserted at
\* the slots from the counter's value at the start of the call on.
ChunkLayout(p, n) ==
  LET c     == call[p]
      slots == Append(c.slots, documentMetadata'.chunkToIndex[ChunkId(c.documentId, c.i)])
  IN  /\ Len(ChunkTable[c.content]) = n
      /\ Len(slots) = n
      /\ documentMetadata'.count = c.slot0 + n
      /\ \A i \in 1..Len(slots) :
           /\ slots[i] = c.slot0 + i - 1
           /\ slots[i] \in DOMAIN documentVectorIndex'.points
           /\ documentVectorIndex'.points[slots[i]] = Embed(ChunkContent(<<c.content, i - 1>>))

\* C8 as stated: the store of a 2500-unit text makes 4 chunks at consecutive
\* slots from the counter's value at the start of the call.
C8_FourChunks ==
  [][\A p \in Callers : LongStoreReturns(p) => ChunkLayout(p, 4)]_vars

\* C8: the store of a 2500-unit text with chunk size 1000 and overlap 200 makes
\* 3 chunks, each embedded and inserted at consecutive slots from the counter's
\* value at the start of the call.
C8_ThreeChunks ==
  [][\A p \in Callers : LongStoreReturns(p) => ChunkLayout(p, 3)]_vars

\* The 2500-unit document was stored, its chunks at slots other than 0..2.
C8_Witness ==
  /\ ret.op = "store" /\ ret.ok
  /\ ret.documentId \in DOMAIN documentMetadata.documents
  /\ Len(TextOf(documentMetadata.documents[ret.documentId].content)) = 2500
  /\ ChunkId(ret.documentId, 0) \in DOMAIN documentMetadata.chunkToIndex
  /\ documentMetadata.chunkToIndex[ChunkId(ret.documentId, 0)] > 0
  /\ Cardinality(ChunksOf(ret.documentId)) = 3

Similarities == -80..100
ChunkCounts == 1..6

ScoreMonotone ==
  \A s \in Similarities, n \in ChunkCounts :
    /\ combinedScore(s, n) <= combinedScore(s, n + 1)
    /\ combinedScore(s, n) <= combinedScore(s + 1, n)

\* C9: the score of every returned document is the greatest similarity plus a
\* tenth per slot, over the slots of the index's answer that resolve to chunks
\* of that document, which the caller owns; the score is non-decreasing in
\* either term.
C9_Score ==
  /\ ScoreMonotone
  /\ \A u \in Users, q \in Queries, l \in Limits, tie \in TieOrders :
       LET nb      == Neighbors(q, l, tie)
           results == searchDocuments(u, q, l, tie)
       IN  \A j \in 1..Len(results) :
             /\ results[j].id \in HitDocs(u, nb)
             /\ results[j].similarity = ScoreOf(nb, results[j].id)

\* A search returned a document with two chunks in the index's answer at
\* different distances, next to a chunk of another user.
C9_Witness ==
  /\ ret.op = "search" /\ ret.ok
  /\ \E u \in Users, q \in Queries, l \in Limits, tie \in TieOrders :
       LET nb      == Neighbors(q, l, tie)
           results == searchDocuments(u, q, l, tie)
       IN  \E j \in 1..Len(results) :
             LET hits == HitsOf(nb, results[j].id)
             IN  /\ Cardinality(hits) >= 2
                 /\ \E a, b \in hits : nb[a].distance # nb[b].distance
                 /\ Cardinality(hits) < Len(nb)

\* C10: searchDocuments returns at most `limit` entries, no document twice, in
\* descending order of score, and no document it leaves out scores higher than
\* one it returns.
C10_Ranked ==
  \A u \in Users, q \in Queries, l \in Limits, tie \in TieOrders :
    LET nb      == Neighbors(q, l, tie)
        results == searchDocuments(u, q, l, tie)
    IN  /\ Len(results) <= l
        /\ Cardinality(Ids(results)) = Len(results)
        /\ \A j, k \in 1..Len(results) :
             j < k => results[j].similarity >= results[k].similarity
        /\ \A d \in HitDocs(u, nb) \ Ids(results) :
             \A j \in 1..Len(results) : ScoreOf(nb, d) <= results[j].similarity

\* A search returned one of two matching documents of the caller, the one left
\* out being the nearer to the query.
C10_Witness ==
  /\ ret.op = "search" /\ ret.ok
  /\ \E u \in Users, q \in Queries, l \in Limits, tie \in TieOrders :
       LET nb      == Neighbors(q, l, tie)
           results == searchDocuments(u, q, l, tie)
       IN  /\ Len(results) = l
           /\ \E d \in HitDocs(u, nb) \ Ids(results) :
                /\ ScoreOf(nb, d) < results[1].similarity
                /\ \E j \in HitsOf(nb, d) : j = 1

\* C11: searchDocuments throws nothing to its caller; when its query embedding
\* or the index query fails it returns the empty list for every input, and
\* the store, the index, the documents directory, the metadata file and the
\* index file are as before the call.
C11_SearchNeverThrows ==
  [][ret'.op = "search"
       => /\ ~ret'.threw
          /\ ~ret'.ok
               => /\ UNCHANGED <<documentMetadata, documentVectorIndex, files,
                                 metadataFile, indexFile>>
                  /\ \A outcome \in SearchOutcomes \ {"ok"} :
                       \A u \in Users, q \in Queries, l \in Limits, tie \in TieOrders :
                         searchReturn(u, q, l, tie, outcome)' = << >>]_vars

\* A search failed and returned while the caller has a document that a
\* successful search for the same query returns.
C11_Witness ==
  /\ ret.op = "search" /\ ~ret.ok /\ ~ret.threw
  /\ \E u \in Users, q \in Queries, l \in Limits, tie \in TieOrders :
       /\ searchReturn(u, q, l, tie, "ok") # << >>
       /\ searchReturn(u, q, l, tie, "noData") = << >>

\* The chunk ids recorded in `meta` for document d.
ChunkIdsOf(meta, d) == {c \in DOMAIN meta.chunks : meta.chunks[c].documentId = d}

\* The chunk ids of documents other than d, in the records or in the slot map.
OtherChunkIds(meta, d) ==
  {c \in DOMAIN meta.chunks \cup DOMAIN meta.chunkToIndex : c \notin ChunkIdsOf(meta, d)}

\* The effect of a deleteDocument(u, d) that returned true, from the state
\* before to the state after.
DeletedCleanly(u, d) ==
  /\ \A c \in ChunkIdsOf(documentMetadata, d) \cap DOMAIN documentMetadata.chunkToIndex :
       documentMetadata.chunkToIndex[c] \in documentVectorIndex'.deleted
  /\ ChunkIdsOf(documentMetadata', d) = {}
  /\ \A c \in ChunkIdsOf(documentMetadata, d) : c \notin DOMAIN documentMetadata'.chunkToIndex
  /\ d \notin DOMAIN documentMetadata'.documents
  /\ u \in DOMAIN documentMetadata'.userDocuments
       => \A j \in 1..Len(documentMetadata'.userDocuments[u]) :
            documentMetadata'.userDocuments[u][j] # d
  \* everything else is as it was
  /\ DOMAIN documentMetadata'.documents = DOMAIN documentMetadata.documents \ {d}
  /\ \A e \in DOMAIN documentMetadata'.documents :
       documentMetadata'.documents[e] = documentMetadata.documents[e]
  /\ \A c \in OtherChunkIds(documentMetadata, d) :
       /\ c \in DOMAIN documentMetadata.chunks
            => /\ c \in DOMAIN documentMetadata'.chunks
               /\ documentMetadata'.chunks[c] = documentMetadata.chunks[c]
       /\ c \in DOMAIN documentMetadata.chunkToIndex
            => /\ c \in DOMAIN documentMetadata'.chunkToIndex
               /\ documentMetadata'.chunkToIndex[c] = documentMetadata.chunkToIndex[c]
  /\ DOMAIN documentMetadata'.userDocuments = DOMAIN documentMetadata.userDocuments
  /\ \A v \in DOMAIN documentMetadata.userDocuments \ {u} :
       documentMetadata'.userDocuments[v] = documentMetadata.userDocuments[v]
  /\ documentMetadata'.count = documentMetadata.count
  /\ documentVectorIndex'.points = documentVectorIndex.points
  \* both files hold the state after
  /\ metadataFile'.exists /\ loadDocumentMetadata(metadataFile') = documentMetadata'
  /\ indexFile'.exists /\ initDocumentVectorIndex(indexFile') = documentVectorIndex'

\* C12: a deleteDocument that returns true has soft-deleted every slot of the
\* document's chunks, removed its chunk records, slot mappings, document
\* record and list entry, left every other document, the other users' lists
\* and count as they were, and written the metadata and the index to disk.
C12_DeleteTrue ==
  [][(ret'.op = "delete" /\ ret'.ok) => DeletedCleanly(ret'.userId, ret'.documentId)]_vars

\* A delete returned true for a document of several chunks while a document
\* of another user, with chunks of its own, is stored.
C12_Witness ==
  /\ ret.op = "delete" /\ ret.ok
  /\ Cardinality(documentVectorIndex.deleted) >= 2
  /\ \E e \in DOMAIN documentMetadata.documents :
       /\ documentMetadata.documents[e].userId # ret.userId
       /\ ChunkIdsOf(documentMetadata, e) # {}
       /\ e \in Ids(listUserDocuments(documentMetadata, documentMetadata.documents[e].userId))

\* Process p's store passes a slot to addPoint in this step: the slot.
AddsPoint(p) == pc[p] = "embed" /\ documentMetadata'.count = documentMetadata.count + 1
AddedSlot(p) == documentMetadata'.chunkToIndex[ChunkId(call[p].documentId, call[p].i)]

\* C13: over stores, deletes and restarts the counter never decreases and no
\* slot passed to addPoint for one chunk is passed to addPoint for another.
C13_NoSlotReuse ==
  [][/\ documentMetadata'.count >= documentMetadata.count
     /\ \A p \in Callers : AddsPoint(p) => AddedSlot(p) \notin hist.slots]_vars

\* C14: every chunk record has a slot mapping, every slot mapping belongs to
\* a chunk record, no two chunk ids share a slot, and every mapped slot is
\* below count.
C14_ChunkSlots ==
  /\ DOMAIN documentMetadata.chunks = DOMAIN documentMetadata.chunkToIndex
  /\ \A c, e \in DOMAIN documentMetadata.chunkToIndex :
       documentMetadata.chunkToIndex[c] = documentMetadata.chunkToIndex[e] => c = e
  /\ \A c \in DOMAIN documentMetadata.chunkToIndex :
       documentMetadata.chunkToIndex[c] < documentMetadata.count

\* Chunks of two documents, four or more in all, are recorded and mapped in
\* the store a restart has loaded from the metadata file.
C14_Witness ==
  /\ Cardinality({documentMetadata.chunks[c].documentId : c \in DOMAIN documentMetadata.chunks}) = 2
  /\ Cardinality(DOMAIN documentMetadata.chunkToIndex) >= 4
  /\ ret.op = "restart"
  /\ metadataFile.exists

\* C15: while no deleteDocument call has failed part-way, every id in
\* userDocuments[u] is a key of documents and that record's userId is u.
C15_ListsResolve ==
  hist.partial = {}
    => \A u \in DOMAIN documentMetadata.userDocuments :
         \A j \in 1..Len(documentMetadata.userDocuments[u]) :
           LET id == documentMetadata.userDocuments[u][j]
           IN  /\ id \in DOMAIN documentMetadata.documents
               /\ documentMetadata.documents[id].userId = u

\* Process p's storeDocument call returns a document id in this step.
StoreReturns(p) ==
  /\ pc[p] # "idle" /\ pc'[p] = "idle"
  /\ ret'.op = "store" /\ ret'.ok /\ ret'.documentId = call[p].documentId

\* C16: a storeDocument call that no other mutation interleaves with and
\* that succeeds on a document of n chunks, started at count = c, maps chunk i
\* to slot c + i, leaves count = c + n and puts the new id last in the user's
\* list.
C16_StoreLayout ==
  [][\A p \in Callers :
       (StoreReturns(p) /\ call[p].clean)
         => LET c    == call[p].slot0
                d    == call[p].documentId
                u    == call[p].userId
                n    == Len(chunkText(TextOf(call[p].content), DefaultChunkSize, DefaultOverlap))
                list == documentMetadata'.userDocuments[u]
            IN  /\ \A i \in 0..(n - 1) :
                     /\ ChunkId(d, i) \in DOMAIN documentMetadata'.chunkToIndex
                     /\ documentMetadata'.chunkToIndex[ChunkId(d, i)] = c + i
                     /\ documentMetadata'.chunks[ChunkId(d, i)].documentId = d
                     /\ documentMetadata'.chunks[ChunkId(d, i)].chunkIndex = i
                /\ documentMetadata'.count = c + n
                /\ Len(list) >= 1 /\ list[Len(list)] = d]_vars

\* A store returned the second document of a user, its three chunks mapped
\* from slot 1 on, with no delete having happened.
C16_Witness ==
  /\ ret.op = "store" /\ ret.ok
  /\ hist.deleteCalled = {} /\ hist.partial = {}
  /\ \E u \in DOMAIN documentMetadata.userDocuments :
       /\ Len(documentMetadata.userDocuments[u]) = 2
       /\ documentMetadata.userDocuments[u][2] = ret.documentId
  /\ Cardinality(ChunkIdsOf(documentMetadata, ret.documentId)) = 3
  /\ documentMetadata.chunkToIndex[ChunkId(ret.documentId, 0)] = 1

\* C17: a storeDocument call made while the embedding provider cannot
\* initialize returns no document id: a call that returns one leaves the
\* embedder initialized, whatever the document, an empty one included.
C17_StoreNeedsEmbedder ==
  [][\A p \in Callers : StoreReturns(p) => documentEmbedder' # 0]_vars

\* deleteDocument(u, d) called in the current state: what it returns and leaves.
DeleteNow(u, d) ==
  deleteDocument(documentMetadata, documentVectorIndex, files, metadataFile, indexFile, u, d)

\* What the caller of execute({operation: 'delete', ...}) is answered.
DeleteAnswer(u, d) == execute("delete", FALSE, "", DeleteNow(u, d).result)

\* The ids a caller can ask for: those handed out, and 0, which never is.
AskedIds == 0..MaxDocs

\* C18: in every state, deleting an id that does not exist and deleting an id
\* that belongs to another user return the same false, the same answer from
\* execute, and leave the same unchanged state.
C18_DeleteNonInterference ==
  \A u \in Users, a, b \in AskedIds :
    (/\ a \notin DOMAIN documentMetadata.documents
     /\ b \in DOMAIN documentMetadata.documents
     /\ documentMetadata.documents[b].userId # u)
      => /\ DeleteNow(u, a).result = FALSE
         /\ DeleteNow(u, b).result = FALSE
         /\ DeleteAnswer(u, a) = DeleteAnswer(u, b)
         /\ DeleteAnswer(u, b) = Response(FALSE, "Failed to delete document")
         /\ [DeleteNow(u, a) EXCEPT !.result = FALSE] = [DeleteNow(u, b) EXCEPT !.result = FALSE]
         /\ DeleteNow(u, b).meta = documentMetadata
         /\ DeleteNow(u, b).index = documentVectorIndex
         /\ DeleteNow(u, b).files = files
         /\ DeleteNow(u, b).metadataFile = metadataFile
         /\ DeleteNow(u, b).indexFile = indexFile

\* A delete of another user's stored document was answered, while an id that
\* was handed out and deleted no longer exists.
C18_Witness ==
  /\ ret.op = "delete" /\ ~ret.ok
  /\ ret.json = Response(FALSE, "Failed to delete document")
  /\ ret.documentId \in DOMAIN documentMetadata.documents
  /\ documentMetadata.documents[ret.documentId].userId # ret.userId
  /\ ret.documentId \in hist.stored
  /\ \E a \in hist.deleted : a \notin DOMAIN documentMetadata.documents

\* C19: every call of vectorStore.execute is answered with a boolean success;
\* a store, search or delete lacking its argument is answered success = false
\* and changes no state; an error thrown by storeDocument is answered
\* success = false with the error's message.
C19_ExecuteAnswers ==
  [][/\ ret'.op \in {"store", "search", "list", "delete", "rejected"}
          => ret'.json.success \in BOOLEAN
     /\ ret'.op = "rejected"
          => /\ ret'.json.success = FALSE
             /\ ret'.json.text # ""
             /\ UNCHANGED storeVars
     /\ (ret'.op = "store" /\ ret'.threw)
          => /\ ret'.message # ""
             /\ ret'.json = Response(FALSE, ret'.message)]_vars

\* A store whose second embedding failed was answered with the error's
\* message, its first chunk left in the store.
C19_Witness ==
  /\ ret.op = "store" /\ ret.threw
  /\ ret.json = Response(FALSE, "Failed to generate document embedding")
  /\ documentMetadata.count >= 1
  /\ hist.stored = {}

\* The metadata file is missing or cannot be parsed.
BadMetadataFile == ~metadataFile.exists \/ ~metadataFile.valid

\* C20: a startup on a missing or unparsable metadata file does not fail and
\* leaves the empty defaults in memory; afterwards the calls work as on an
\* empty store: the counter and the slot maps stay consistent, every list
\* is exactly the documents stored and not deleted, and every store or delete
\* that succeeds leaves a metadata file that loads to the store in memory.
C20_LoadDefaults ==
  [][/\ (ret'.op = "restart" /\ BadMetadataFile)
          => /\ documentMetadata' = EmptyMetadata
             /\ documentMetadata'.count = 0
             /\ metadataFile' = metadataFile
     /\ (ret'.op \in {"store", "delete"} /\ ret'.ok)
          => /\ metadataFile'.exists /\ metadataFile'.valid
             /\ loadDocumentMetadata(metadataFile') = documentMetadata'
     /\ DOMAIN documentMetadata'.chunks = DOMAIN documentMetadata'.chunkToIndex
     /\ \A c \in DOMAIN documentMetadata'.chunkToIndex :
          documentMetadata'.chunkToIndex[c] < documentMetadata'.count
     /\ \A u \in Users :
          Ids(listUserDocuments(documentMetadata', u))
            = {d \in (hist'.stored \ hist'.deleted) \cap DOMAIN documentMetadata'.documents :
                 documentMetadata'.documents[d].userId = u}]_vars

\* After a startup on an unusable metadata file and the index file of an
\* earlier life, a document was stored, is listed, and the metadata file has
\* been rewritten.
C20_Witness ==
  /\ ret.op = "store" /\ ret.ok
  /\ metadataFile.exists /\ metadataFile.valid
  /\ indexFile = EarlierIndexFile
  /\ \E u \in Users : ret.documentId \in Ids(listUserDocuments(documentMetadata, u))
  /\ ChunkIdsOf(documentMetadata, ret.documentId) # {}

\* What a restart would load from the metadata file.
Persisted == loadDocumentMetadata(metadataFile)

\* The ids in the users' lists of `meta`.
ListedIds(meta) ==
  UNION {{meta.userDocuments[u][j] : j \in 1..Len(meta.userDocuments[u])} :
           u \in DOMAIN meta.userDocuments}

C22_InitOnce ==
  /\ embedRun.inits <= 1
  /\ \A c \in EmbedCallers : embedRun.pc[c] = "model" => embedRun.model[c] = documentEmbedder
  /\ Cardinality(embedRun.used) <= 1

\* No storeDocument call is suspended (deleteDocument never is).
Quiet == \A p \in Procs : pc[p] = "idle"

\* C23: whenever no storeDocument or deleteDocument call is in progress, the
\* metadata file holds the store that is in memory (a missing file standing
\* for the empty store), whether the last call succeeded or failed.
C23_FileEqualsMemory == Quiet => Persisted = documentMetadata

\* The points of the in-memory index that the index file does not hold.
IndexLag(index, file) ==
  Cardinality({label \in DOMAIN index.points :
                 ~file.exists \/ label \notin DOMAIN file.index.points})

\* C24: every step that brings the slot counter to a multiple of 10, in the
\* middle of a document too, writes the in-memory index to the index file,
\* and when a store returns the file lacks fewer than 10 of the index's
\* points.
C24_IndexEveryTenth ==
  [][/\ (documentMetadata'.count # documentMetadata.count
         /\ documentMetadata'.count % IndexSavePeriod = 0)
          => indexFile' = writeIndex(documentVectorIndex')
     /\ (\E p \in Procs : StoreReturns(p))
          => IndexLag(documentVectorIndex', indexFile') < IndexSavePeriod]_vars

\* The arguments chunkText is specified for, and those it hangs on.
Advancing == chunkRun.overlap < chunkRun.chunkSize
Stuck == chunkRun.overlap >= chunkRun.chunkSize /\ Len(chunkRun.text) > chunkRun.chunkSize

\* C25: with 0 <= overlap < size the loop returns; each iteration that goes
\* on starts size - overlap further than the one before, which is strictly
\* further; the result is that of chunkText, with no chunk exactly when the
\* text is empty.  With overlap >= size and a text longer than size the start
\* never moves forward (it stays at or below 0) and the loop never returns.
C25_ChunkTerminates ==
  /\ [](Advancing => /\ Len(chunkRun.chunks) <= Len(chunkRun.text)
                     /\ chunkRun.pc = "returned" =>
                          /\ chunkRun.chunks =
                               chunkText(chunkRun.text, chunkRun.chunkSize, chunkRun.overlap)
                          /\ (chunkRun.chunks = << >>) <=> (chunkRun.text = << >>))
  /\ [][(Advancing /\ chunkRun'.pc = "loop") =>
          /\ chunkRun'.start = chunkRun.start + chunkRun.chunkSize - chunkRun.overlap
          /\ chunkRun'.start > chunkRun.start]_vars
  /\ [](Advancing => <>(chunkRun.pc = "returned"))
  /\ [](Stuck => chunkRun.pc = "loop" /\ chunkRun.start <= 0)
  /\ [][Stuck => chunkRun'.start <= chunkRun.start]_vars

\* chunkText has returned three chunks or more of a text, with an overlap.
C25_Witness ==
  /\ chunkRun.pc = "returned"
  /\ "start" \in DOMAIN chunkRun
  /\ chunkRun.overlap >= 1 /\ Advancing
  /\ Len(chunkRun.chunks) >= 3

\* Process p's storeDocument call throws in this step.
StoreThrows(p) == pc[p] # "idle" /\ pc'[p] = "idle" /\ ret'.op = "store" /\ ret'.threw

\* C26: a storeDocument call that throws leaves no trace: a call that throws
\* before it is suspended changes nothing, and one that throws later leaves
\* no record, chunk, slot mapping or list entry of its document, the counter
\* where it was when the call began and no point at or above it in the index.
C26_FailedStoreAtomic ==
  [][/\ (ret'.op = "store" /\ ret'.threw /\ \A p \in Procs : pc[p] = "idle")
          => UNCHANGED <<documentMetadata, documentVectorIndex>>
     /\ \A p \in Procs : StoreThrows(p) =>
          LET d == call[p].documentId
          IN  /\ d \notin DOMAIN documentMetadata'.documents
              /\ ChunkIdsOf(documentMetadata', d) = {}
              /\ \A c \in DOMAIN documentMetadata'.chunkToIndex : c[1] # d
              /\ d \notin ListedIds(documentMetadata')
              /\ documentMetadata'.count = call[p].slot0
              /\ \A label \in DOMAIN documentVectorIndex'.points : label < call[p].slot0]_vars

\* C27: every document searchDocuments(userId, ...) returns is returned by
\* listUserDocuments(userId), and every document record that has a chunk
\* mapped to a slot is listed for its user, in every reachable state.
C27_SearchedAreListed ==
  /\ \A u \in Users, q \in Queries, l \in Limits, tie \in TieOrders :
       Ids(searchDocuments(u, q, l, tie)) \subseteq Ids(listUserDocuments(documentMetadata, u))
  /\ \A d \in DOMAIN documentMetadata.documents :
       (\E c \in DOMAIN documentMetadata.chunkToIndex : c[1] = d)
         => d \in Ids(listUserDocuments(documentMetadata, documentMetadata.documents[d].userId))

\* C28: a deleteDocument call that returns false leaves the files of the
\* documents directory, the store and the index as they were.
C28_DeleteFalseUnchanged ==
  [][(ret'.op = "delete" /\ ~ret'.ok)
       => UNCHANGED <<files, documentMetadata, documentVectorIndex>>]_vars

\* C29: however two storeDocument calls and deletes are interleaved, no two
\* chunks share a slot, the slots handed to addPoint are 0..count-1, each
\* once, and count is the number of points inserted.
C29_SlotsUnique ==
  /\ \A c, e \in DOMAIN documentMetadata.chunkToIndex :
       documentMetadata.chunkToIndex[c] = documentMetadata.chunkToIndex[e] => c = e
  /\ DOMAIN documentVectorIndex.points = 0..(documentMetadata.count - 1)
  /\ hist.slots = 0..(documentMetadata.count - 1)
  /\ documentMetadata.count = Cardinality(DOMAIN documentVectorIndex.points)

\* Two stores are suspended with their chunks' slots interleaved: the first
\* slot of one lies between two slots of the other.
C29_Witness ==
  \E p, q \in Procs :
    /\ p # q
    /\ pc[p] = "embed" /\ pc[q] = "embed"
    /\ Len(call[p].slots) >= 2 /\ Len(call[q].slots) >= 1
    /\ call[p].slots[1] < call[q].slots[1]
    /\ call[q].slots[1] < call[p].slots[2]

\* C30: when the process restarts with no call in progress, every slot in
\* the loaded chunkToIndex is a live point of the loaded index.
C30_LoadedSlotsLive ==
  [][(ret'.op = "restart" /\ Quiet)
       => \A c \in DOMAIN documentMetadata'.chunkToIndex :
            documentMetadata'.chunkToIndex[c] \in LivePoints(documentVectorIndex')]_vars

=============================================================================
